---- MODULE Spec2Model ----
(***************************************************************************)
(* Offer scoring and task dispatch of the yap-strategy examples.           *)
(*                                                                         *)
(* Three example programs are modelled:                                    *)
(*   "simple"  : market_strategy-simple-price-filter.py                    *)
(*   "impr"    : market_strategy-simple-price-filter-impr.py               *)
(*   "compose" : market_strategy.py (MyStrategy over                       *)
(*               LeastExpensiveLinearPayuMS)                               *)
(* Prices are integers counted in units of 0.00001 GLM.                    *)
(***************************************************************************)
EXTENDS Integers, Sequences, FiniteSets, TLC

\* ------------------------------------------------------------------ bounds
MaxUsageLen == 3

MaxCoeffLen == MaxUsageLen + 1

\* ------------------------------------------------- configuration (main())
max_cpu_price == 1

max_dur_price == 1

max_str_price == 0

NumTasks == 10

\* ------------------------------------------------------------- vocabulary
CPU == "golem.usage.cpu_sec"

DUR == "golem.usage.duration_sec"

UNRECOGNIZED == "golem.usage.unrecognized"

Counters == {CPU, DUR, UNRECOGNIZED}

\* A price below the cap, at the cap, and one unit above the cap.
Prices == 0 .. (max_cpu_price + 1)

SCORE_TRUSTED == "Trusted"

SCORE_NEUTRAL == "Neutral"

SCORE_REJECTED == "Rejected"

Verdicts == {SCORE_TRUSTED, SCORE_NEUTRAL, SCORE_REJECTED}

Variants == {"simple", "impr", "compose"}

Standalone == {"simple", "impr"}

SeqsUpTo(S, n) == UNION {[1..k -> S] : k \in 0..n}

Offers == [usage_vector : SeqsUpTo(Counters, MaxUsageLen),
           coeffs : SeqsUpTo(Prices, MaxCoeffLen)]

NoResult == [verdict |-> "unscored"]

\* ------------------------------------------------------- python sequences
\* Position (0-based) denoted by a python index i into a list of length n.
PyPos(n, i) == IF i < 0 THEN n + i ELSE i

\* list[i] raises IndexError unless the position is inside the list.
PyIndexOK(s, i) == PyPos(Len(s), i) >= 0 /\ PyPos(Len(s), i) < Len(s)

PyGet(s, i) == s[PyPos(Len(s), i) + 1]

\* list.index(x) if x in list else -1 : the FIRST 0-based position of x.
PyIndexOf(s, x) ==
  IF \E i \in 1..Len(s) : s[i] = x
    THEN (CHOOSE i \in 1..Len(s) : s[i] = x /\ \A j \in 1..(i-1) : s[j] # x) - 1
    ELSE -1

\* ----------------------------------------------- usage-vector index scan
\* for idx, val in enumerate(usage_vector): the loop of the "simple" and
\* "compose" variants, started at 1-based position i with the indices found
\* so far; every other element is reported as unused.
RECURSIVE ScanUsage(_, _, _)
ScanUsage(uv, i, acc) ==
  IF i > Len(uv) THEN acc
  ELSE IF uv[i] = CPU THEN ScanUsage(uv, i + 1, [acc EXCEPT !.cpu = i - 1])
  ELSE IF uv[i] = DUR THEN ScanUsage(uv, i + 1, [acc EXCEPT !.dur = i - 1])
  ELSE ScanUsage(uv, i + 1, [acc EXCEPT !.unused = Append(@, uv[i])])

ResolveByScan(uv) == ScanUsage(uv, 1, [cpu |-> -1, dur |-> -1, unused |-> <<>>])

\* The "impr" variant resolves with list.index and reports nothing.
ResolveByIndex(uv) ==
  [cpu |-> PyIndexOf(uv, CPU), dur |-> PyIndexOf(uv, DUR), unused |-> <<>>]

\* ------------------------------------------------------ price extraction
\* The three subscript expressions are evaluated in order; the first one
\* outside the list raises IndexError and nothing after it is read.
RECURSIVE ReadInOrder(_, _, _)
ReadInOrder(coeffs, idxs, reads) ==
  IF idxs = <<>> THEN [ok |-> TRUE, reads |-> reads]
  ELSE IF ~PyIndexOK(coeffs, Head(idxs)) THEN [ok |-> FALSE, reads |-> reads]
  ELSE ReadInOrder(coeffs, Tail(idxs),
                   reads \cup {PyPos(Len(coeffs), Head(idxs))})

Rejection(r) ==
  [verdict |-> SCORE_REJECTED, exc |-> "none", reads |-> {}, startPos |-> -1,
   compared |-> FALSE, innerCalls |-> 0, innerVerdict |-> "none",
   cpu |-> r.cpu, dur |-> r.dur, unused |-> r.unused]

Raised(r, reads) ==
  [verdict |-> "none", exc |-> "IndexError", reads |-> reads, startPos |-> -1,
   compared |-> FALSE, innerCalls |-> 0, innerVerdict |-> "none",
   cpu |-> r.cpu, dur |-> r.dur, unused |-> r.unused]

\* if price_cpu <= max_cpu and price_dur <= max_dur and price_start <= max_str
WithinCaps(price_cpu, price_dur, price_start) ==
  /\ price_cpu <= max_cpu_price
  /\ price_dur <= max_dur_price
  /\ price_start <= max_str_price

\* Threshold without the test for a missing counter: -1 is then used as a
\* subscript.
ThresholdUnchecked(o, r, startIdx) ==
  LET rd == ReadInOrder(o.coeffs, <<r.cpu, r.dur, startIdx>>, {})
  IN IF ~rd.ok THEN Raised(r, rd.reads)
     ELSE [verdict |-> IF WithinCaps(PyGet(o.coeffs, r.cpu),
                                     PyGet(o.coeffs, r.dur),
                                     PyGet(o.coeffs, startIdx))
                         THEN SCORE_TRUSTED ELSE SCORE_REJECTED,
           exc |-> "none", reads |-> rd.reads,
           startPos |-> PyPos(Len(o.coeffs), startIdx),
           compared |-> TRUE, innerCalls |-> 0, innerVerdict |-> "none",
           cpu |-> r.cpu, dur |-> r.dur, unused |-> r.unused]

\* Threshold filter given the resolved indices r and the python index
\* startIdx used for the start price.
Threshold(o, r, startIdx) ==
  IF r.cpu = -1 \/ r.dur = -1 THEN Rejection(r)
  ELSE LET rd == ReadInOrder(o.coeffs, <<r.cpu, r.dur, startIdx>>, {})
       IN IF ~rd.ok THEN Raised(r, rd.reads)
          ELSE [verdict |-> IF WithinCaps(PyGet(o.coeffs, r.cpu),
                                          PyGet(o.coeffs, r.dur),
                                          PyGet(o.coeffs, startIdx))
                              THEN SCORE_TRUSTED ELSE SCORE_REJECTED,
                exc |-> "none", reads |-> rd.reads,
                startPos |-> PyPos(Len(o.coeffs), startIdx),
                compared |-> TRUE, innerCalls |-> 0, innerVerdict |-> "none",
                cpu |-> r.cpu, dur |-> r.dur, unused |-> r.unused]

\* market_strategy-simple-price-filter.py : MyStrategy.score_offer
ScoreOfferSimple(o) == Threshold(o, ResolveByScan(o.usage_vector), -1)

\* The "impr" filter with the start price taken one position too early.
ScoreOfferImprStartAt1(o) == Threshold(o, ResolveByIndex(o.usage_vector), 1)

\* market_strategy-simple-price-filter-impr.py : MyStrategy.score_offer
ScoreOfferImpr(o) == Threshold(o, ResolveByIndex(o.usage_vector), 2)

\* The composing variant with a threshold filter of its own in front of the
\* inner strategy.
ScoreOfferComposeFiltering(o, inner) ==
  LET t == Threshold(o, ResolveByScan(o.usage_vector), -1)
  IN IF t.verdict = SCORE_TRUSTED
       THEN [t EXCEPT !.verdict = inner, !.innerCalls = 1, !.innerVerdict = inner]
       ELSE t

\* market_strategy.py : MyStrategy.score_offer.  The prices are only read
\* and printed; the verdict is the one of super().score_offer(offer).
ScoreOfferCompose(o, inner) ==
  LET r == ResolveByScan(o.usage_vector)
  IN IF r.cpu = -1 \/ r.dur = -1 THEN Rejection(r)
     ELSE LET rd == ReadInOrder(o.coeffs, <<r.cpu, r.dur, -1>>, {})
          IN IF ~rd.ok THEN Raised(r, rd.reads)
             ELSE [verdict |-> inner, exc |-> "none", reads |-> rd.reads,
                   startPos |-> PyPos(Len(o.coeffs), -1),
                   compared |-> FALSE, innerCalls |-> 1, innerVerdict |-> inner,
                   cpu |-> r.cpu, dur |-> r.dur, unused |-> r.unused]

\* ----------------------------------------------------------- timing output
Whitespace == {" ", "\n"}

Digits == {"0", "1", "5"}

\* str.split(): maximal runs of non-whitespace characters, in order.
RECURSIVE SplitFrom(_, _, _, _)
SplitFrom(s, i, cur, acc) ==
  IF i > Len(s) THEN (IF cur = <<>> THEN acc ELSE Append(acc, cur))
  ELSE IF s[i] \in Whitespace
    THEN SplitFrom(s, i + 1, <<>>, IF cur = <<>> THEN acc ELSE Append(acc, cur))
    ELSE SplitFrom(s, i + 1, Append(cur, s[i]), acc)

Split(s) == SplitFrom(s, 1, <<>>, <<>>)

\* float(tok) accepts, over this alphabet, digits with at most one point and
\* at least one digit; anything else raises ValueError.
IsFloat(tok) ==
  /\ \A i \in 1..Len(tok) : tok[i] \in Digits \cup {"."}
  /\ Cardinality({i \in 1..Len(tok) : tok[i] = "."}) <= 1
  /\ \E i \in 1..Len(tok) : tok[i] \in Digits

DigitVal(c) == IF c = "0" THEN 0 ELSE IF c = "1" THEN 1 ELSE 5

RECURSIVE DigitsVal(_, _)
DigitsVal(ds, acc) ==
  IF ds = <<>> THEN acc ELSE DigitsVal(Tail(ds), 10 * acc + DigitVal(Head(ds)))

\* Value of float(tok) in hundredths of a second (the timing samples carry
\* at most two fractional digits).
FloatValue(tok) ==
  LET n == Len(tok)
      dot == IF \E i \in 1..n : tok[i] = "."
               THEN CHOOSE i \in 1..n : tok[i] = "." ELSE n + 1
      ip == SubSeq(tok, 1, dot - 1)
      fp == SubSeq(tok, dot + 1, n)
      f2 == SubSeq(fp \o <<"0", "0">>, 1, 2)
  IN DigitsVal(ip, 0) * 100 + DigitsVal(f2, 0)

\* What /usr/bin/time -p may leave on stderr.
StderrOutputs ==
  { <<"r","e","a","l"," ","1",".","5","\n","u","s","e","r"," ","1",".","0","\n">>,
    <<"r","e","a","l"," "," ","0",".","5","1">>,
    <<>>,
    <<"r","e","a","l","\n">>,
    <<"r","e","a","l"," ","r","e","a","l">>,
    <<"e","r","r",":"," ","r","e","a","l"," ","1",".","5">> }

Providers == {"provider-a", "provider-b"}

Tasks == 1..NumTasks

\* ------------------------------------------------------------------ state
VARIABLES offer, res, base,
          engine, wpc, provider, tasksClosed, status, current, stderr,
          real_time, exc, events, closes, acceptCount, everRaised

scoreVars == <<offer, res, base>>

dispatchVars == <<engine, wpc, provider, tasksClosed, status, current, stderr,
                  real_time, exc, events, closes, acceptCount, everRaised>>

vars == <<offer, res, base,
          engine, wpc, provider, tasksClosed, status, current, stderr,
          real_time, exc, events, closes, acceptCount, everRaised>>

NoBase == [v \in Variants |-> "none"]

\* Start of golem.execute_tasks(worker, tasks, payload, max_workers=1) with
\* tasks = (Task(None) for _ in range(10)).
DispatchInit ==
  /\ engine = "AwaitingMatch"
  /\ wpc = "idle"
  /\ provider = "none"
  /\ tasksClosed = FALSE
  /\ status = [t \in Tasks |-> "waiting"]
  /\ current = 0
  /\ stderr = <<>>
  /\ real_time = -1
  /\ exc = "none"
  /\ events = <<>>
  /\ closes = 0
  /\ acceptCount = [t \in Tasks |-> 0]
  /\ everRaised = FALSE

ScoreIdle ==
  /\ res = [v \in Variants |-> NoResult]
  /\ base = NoBase

\* ----------------------------------------------------------------- scoring
Init ==
  /\ offer \in Offers
  /\ ScoreIdle
  /\ DispatchInit

ScoreSimple ==
  /\ res["simple"] = NoResult
  /\ res' = [res EXCEPT !["simple"] = ScoreOfferSimple(offer)]
  /\ UNCHANGED <<offer, base>>
  /\ UNCHANGED dispatchVars

ScoreImpr ==
  /\ res["impr"] = NoResult
  /\ res' = [res EXCEPT !["impr"] = ScoreOfferImpr(offer)]
  /\ UNCHANGED <<offer, base>>
  /\ UNCHANGED dispatchVars

ScoreCompose ==
  /\ res["compose"] = NoResult
  /\ \E inner \in Verdicts :
       res' = [res EXCEPT !["compose"] = ScoreOfferCompose(offer, inner)]
  /\ UNCHANGED <<offer, base>>
  /\ UNCHANGED dispatchVars

WellFormed(o) == Len(o.coeffs) = Len(o.usage_vector) + 1

\* s with x put at 0-based position pos.
InsertAt(s, pos, x) == SubSeq(s, 1, pos) \o <<x>> \o SubSeq(s, pos + 1, Len(s))

\* A provider re-advertises the scored offer with one more, unrecognized,
\* counter and its coefficient at the same position.
ReceiveExtended ==
  /\ base = NoBase
  /\ \A v \in Variants : res[v] # NoResult
  /\ WellFormed(offer)
  /\ Len(offer.usage_vector) < MaxUsageLen
  /\ \E pos \in 0..Len(offer.usage_vector), c \in Prices :
       offer' = [usage_vector |-> InsertAt(offer.usage_vector, pos, UNRECOGNIZED),
                 coeffs |-> InsertAt(offer.coeffs, pos, c)]
  /\ base' = [v \in Variants |-> res[v].verdict]
  /\ res' = [v \in Variants |-> NoResult]
  /\ UNCHANGED dispatchVars

Next == ScoreSimple \/ ScoreImpr \/ ScoreCompose \/ ReceiveExtended

Spec == Init /\ [][Next]_vars

\* ---------------------------------------------------------------- dispatch
Waiting == {t \in Tasks : status[t] = "waiting"}

NextWaiting == CHOOSE t \in Waiting : \A u \in Waiting : t <= u

AfterWorker == IF Waiting = {} THEN "Completed" ELSE "AwaitingMatch"

\* The engine binds an agreement with a provider and starts worker(ctx, tasks)
\* on a fresh task generator.
EngineMatch ==
  /\ engine = "AwaitingMatch"
  /\ wpc = "idle"
  /\ Waiting # {}
  /\ \E p \in Providers : provider' = p
  /\ engine' = "Running"
  /\ wpc' = "next"
  /\ tasksClosed' = FALSE
  /\ events' = <<>>
  /\ exc' = "none"
  /\ UNCHANGED <<status, current, stderr, real_time, closes, acceptCount,
                 everRaised>>
  /\ UNCHANGED scoreVars

\* The head of the async for if a closed task generator still handed out tasks.
WorkerNextTaskIgnoringClose ==
  /\ wpc = "next"
  /\ IF Waiting = {}
       THEN /\ wpc' = "finished"
            /\ UNCHANGED <<status, current, events>>
       ELSE /\ current' = NextWaiting
            /\ status' = [status EXCEPT ![NextWaiting] = "running"]
            /\ events' = Append(events, "yield")
            /\ wpc' = "yielded"
  /\ UNCHANGED <<engine, provider, tasksClosed, stderr, real_time, exc,
                 closes, acceptCount, everRaised>>
  /\ UNCHANGED scoreVars

\* async for task in tasks: ... script.run(...); yield script
WorkerNextTask ==
  /\ wpc = "next"
  /\ IF tasksClosed \/ Waiting = {}
       THEN /\ wpc' = "finished"
            /\ UNCHANGED <<status, current, events>>
       ELSE /\ current' = NextWaiting
            /\ status' = [status EXCEPT ![NextWaiting] = "running"]
            /\ events' = Append(events, "yield")
            /\ wpc' = "yielded"
  /\ UNCHANGED <<engine, provider, tasksClosed, stderr, real_time, exc,
                 closes, acceptCount, everRaised>>
  /\ UNCHANGED scoreVars

\* The provider executes the script; its stderr becomes the future's result.
ProviderRun ==
  /\ wpc = "yielded"
  /\ \E out \in StderrOutputs : stderr' = out
  /\ events' = Append(events, "result")
  /\ wpc' = "resumed"
  /\ UNCHANGED <<engine, provider, tasksClosed, status, current, real_time,
                 exc, closes, acceptCount, everRaised>>
  /\ UNCHANGED scoreVars

\* real_time_str = future_result.result().stderr.split()[1]
\* real_time = float(real_time_str)
WorkerParse ==
  /\ wpc = "resumed"
  /\ LET toks == Split(stderr)
     IN IF ~PyIndexOK(toks, 1)
          THEN /\ exc' = "IndexError"
               /\ wpc' = "raised"
               /\ everRaised' = TRUE
               /\ UNCHANGED <<real_time, events>>
        ELSE IF ~IsFloat(PyGet(toks, 1))
          THEN /\ exc' = "ValueError"
               /\ wpc' = "raised"
               /\ everRaised' = TRUE
               /\ UNCHANGED <<real_time, events>>
        ELSE /\ real_time' = FloatValue(PyGet(toks, 1))
             /\ events' = Append(events, "parse")
             /\ wpc' = "parsed"
             /\ UNCHANGED <<exc, everRaised>>
  /\ UNCHANGED <<engine, provider, tasksClosed, status, current, stderr,
                 closes, acceptCount>>
  /\ UNCHANGED scoreVars

\* logger.info("TASK EXECUTED ..."); task.accept_result()
WorkerAccept ==
  /\ wpc = "parsed"
  /\ status' = [status EXCEPT ![current] = "accepted"]
  /\ acceptCount' = [acceptCount EXCEPT ![current] = @ + 1]
  /\ events' = Append(events, "accept")
  /\ wpc' = "accepted"
  /\ UNCHANGED <<engine, provider, tasksClosed, current, stderr, real_time,
                 exc, closes, everRaised>>
  /\ UNCHANGED scoreVars

\* The worker without the aclose call: it goes on to the next task.
WorkerAcloseOmitted ==
  /\ wpc = "accepted"
  /\ wpc' = "next"
  /\ UNCHANGED <<engine, provider, tasksClosed, status, current, stderr,
                 real_time, exc, events, closes, acceptCount, everRaised>>
  /\ UNCHANGED scoreVars

\* await tasks.aclose(): the task generator of this agreement is closed and
\* control returns to the head of the async for.
WorkerAclose ==
  /\ wpc = "accepted"
  /\ tasksClosed' = TRUE
  /\ closes' = closes + 1
  /\ events' = Append(events, "aclose")
  /\ wpc' = "next"
  /\ UNCHANGED <<engine, provider, status, current, stderr, real_time, exc,
                 acceptCount, everRaised>>
  /\ UNCHANGED scoreVars

\* The worker generator returned: the engine looks for a new agreement while
\* tasks remain, and execute_tasks ends otherwise.
EngineWorkerDone ==
  /\ wpc = "finished"
  /\ engine' = AfterWorker
  /\ wpc' = "idle"
  /\ UNCHANGED <<provider, tasksClosed, status, current, stderr, real_time,
                 exc, events, closes, acceptCount, everRaised>>
  /\ UNCHANGED scoreVars

\* The exception left the worker generator.  What execute_tasks does with
\* the task is the engine's decision: it is rescheduled or given up.
EngineWorkerRaised ==
  /\ wpc = "raised"
  /\ \E retry \in BOOLEAN :
       /\ status' = [status EXCEPT ![current] = IF retry THEN "waiting" ELSE "failed"]
       /\ engine' = IF retry \/ Waiting # {} THEN "AwaitingMatch" ELSE "Completed"
  /\ wpc' = "idle"
  /\ UNCHANGED <<provider, tasksClosed, current, stderr, real_time, exc,
                 events, closes, acceptCount, everRaised>>
  /\ UNCHANGED scoreVars

DispatchNext ==
  \/ EngineMatch
  \/ WorkerNextTask
  \/ ProviderRun
  \/ WorkerParse
  \/ WorkerAccept
  \/ WorkerAclose
  \/ EngineWorkerDone
  \/ EngineWorkerRaised

\* Scenario A of the marketplace: the offer the strategy accepts.
DispatchStart ==
  /\ offer = [usage_vector |-> <<CPU, DUR>>, coeffs |-> <<0, 0, 0>>]
  /\ ScoreIdle
  /\ DispatchInit

DispatchSpec == DispatchStart /\ [][DispatchNext]_vars

\* ================================================================== claims
Scored(v) == res[v] # NoResult

PositionsOf(uv, c) == {i \in 1..Len(uv) : uv[i] = c}

HasBoth(o) ==
  PositionsOf(o.usage_vector, CPU) # {} /\ PositionsOf(o.usage_vector, DUR) # {}

\* Every advertised price of counter c is within cap.
AllWithin(o, c, cap) == \A i \in PositionsOf(o.usage_vector, c) : o.coeffs[i] <= cap

\* Every advertised price of counter c is above cap.
AllAbove(o, c, cap) == \A i \in PositionsOf(o.usage_vector, c) : o.coeffs[i] > cap

FixedPrice(o) == o.coeffs[Len(o.coeffs)]

\* C1: in the standalone filters a well-formed offer with both counters is
\* Trusted when cpu, duration and fixed price are each within their cap,
\* Rejected when one of them is above its cap, and never Neutral.
C1_Claim ==
  \A v \in Standalone :
    (Scored(v) /\ HasBoth(offer) /\ WellFormed(offer)) =>
      /\ res[v].verdict # SCORE_NEUTRAL
      /\ (AllWithin(offer, CPU, max_cpu_price) /\ AllWithin(offer, DUR, max_dur_price)
            /\ FixedPrice(offer) <= max_str_price)
           => res[v].verdict = SCORE_TRUSTED
      /\ (AllAbove(offer, CPU, max_cpu_price) \/ AllAbove(offer, DUR, max_dur_price)
            \/ FixedPrice(offer) > max_str_price)
           => res[v].verdict = SCORE_REJECTED

\* C2: an offer that lacks the cpu or the duration counter is Rejected by
\* every variant, whatever its coefficients, with no exception and with no
\* coefficient read.
C2_MissingCounterRejected ==
  \A v \in Variants :
    (Scored(v) /\ ~HasBoth(offer)) =>
      /\ res[v].verdict = SCORE_REJECTED
      /\ res[v].exc = "none"
      /\ res[v].reads = {}
      /\ res[v].innerCalls = 0

C2_Witness ==
  /\ \A v \in Variants : Scored(v) /\ res[v].verdict = SCORE_REJECTED
  /\ offer.usage_vector = <<CPU, UNRECOGNIZED>>
  /\ offer.coeffs = <<0>>

\* C3: an offer whose coefficient count differs from usage-vector length + 1
\* is Rejected, and no exception leaves score_offer.
C3_Claim ==
  \A v \in Variants :
    (Scored(v) /\ ~WellFormed(offer)) =>
      res[v].verdict = SCORE_REJECTED /\ res[v].exc = "none"

\* C4: in every variant the start price that is read from a well-formed
\* offer is the last coefficient.
C4_Claim ==
  \A v \in Variants :
    (Scored(v) /\ WellFormed(offer) /\ res[v].startPos # -1) =>
      res[v].startPos = Len(offer.coeffs) - 1

\* C7: an offer the standalone filter accepted keeps its verdict when an
\* unrecognized counter (with its coefficient) is inserted.
C7_Claim ==
  \A v \in Standalone :
    (base[v] = SCORE_TRUSTED /\ Scored(v)) => res[v].verdict = base[v]

\* C8 as stated: the composing variant rejects, without calling the inner
\* strategy, an offer that misses a counter or has a price above its cap,
\* and returns the inner verdict for every other offer.
C8_Claim ==
  LET r == res["compose"]
      o == offer
      over == \/ o.coeffs[r.cpu + 1] > max_cpu_price
              \/ o.coeffs[r.dur + 1] > max_dur_price
              \/ FixedPrice(o) > max_str_price
  IN (Scored("compose") /\ WellFormed(o)) =>
       IF ~HasBoth(o) \/ over
         THEN r.verdict = SCORE_REJECTED /\ r.innerCalls = 0
         ELSE r.innerCalls = 1 /\ r.verdict = r.innerVerdict

\* C8 amended: the composing variant rejects without calling the inner
\* strategy exactly when a counter is missing; an offer with both counters
\* whose three coefficient reads succeed is passed to the inner strategy
\* once, above its caps or not, and gets the inner verdict.
C8_Delegation ==
  LET r == res["compose"]
  IN Scored("compose") =>
       /\ ~HasBoth(offer) => (r.verdict = SCORE_REJECTED /\ r.innerCalls = 0)
       /\ (HasBoth(offer) /\ r.exc = "none")
            => (r.innerCalls = 1 /\ r.verdict = r.innerVerdict)
       /\ r.exc # "none" => r.innerCalls = 0

C8_Witness ==
  /\ Scored("compose")
  /\ offer = [usage_vector |-> <<CPU, DUR>>, coeffs |-> <<2, 0, 0>>]
  /\ res["compose"].innerCalls = 1
  /\ res["compose"].verdict = SCORE_NEUTRAL

\* C10: the two standalone filters agree on every offer with two usage
\* counters and three coefficients.
C10_StandaloneAgree ==
  (Scored("simple") /\ Scored("impr")
     /\ Len(offer.usage_vector) = 2 /\ Len(offer.coeffs) = 3)
    => /\ res["simple"].verdict = res["impr"].verdict
       /\ res["simple"].exc = res["impr"].exc

C10_Witness ==
  /\ Scored("simple") /\ Scored("impr")
  /\ offer = [usage_vector |-> <<DUR, CPU>>, coeffs |-> <<1, 1, 0>>]
  /\ res["simple"].verdict = SCORE_TRUSTED
  /\ res["impr"].verdict = SCORE_TRUSTED

Accepted == {t \in Tasks : status[t] = "accepted"}

\* C5: no task is accepted twice, no agreement is closed without an accepted
\* task, and when the run of 10 tasks completes with every timing line
\* parsed there were exactly 10 acceptances and 10 aclose requests.
C5_TenAcceptedTenClosed ==
  /\ \A t \in Tasks : acceptCount[t] <= 1
  /\ closes <= Cardinality(Accepted)
  /\ (engine = "Completed" /\ ~everRaised) =>
       /\ Accepted = Tasks
       /\ \A t \in Tasks : acceptCount[t] = 1
       /\ closes = NumTasks

C5_Witness ==
  engine = "Completed" /\ ~everRaised /\ closes = NumTasks /\ wpc = "idle"

\* C6: a timing output that cannot be parsed does not raise out of the
\* worker.
C6_Claim == wpc # "raised" /\ exc = "none"

AgreementOrder == <<"yield", "result", "parse", "accept", "aclose">>

\* C9: within one agreement the events are a prefix of yield, result,
\* parse, accept, aclose (so one task only, nothing after aclose); a task is
\* accepted only with a parsed timing value; at most one task is in flight.
C9_AgreementOrder ==
  /\ Len(events) <= Len(AgreementOrder)
  /\ events = SubSeq(AgreementOrder, 1, Len(events))
  /\ wpc = "accepted" =>
       /\ PyIndexOK(Split(stderr), 1)
       /\ IsFloat(PyGet(Split(stderr), 1))
       /\ real_time >= 0
  /\ Cardinality({t \in Tasks : status[t] = "running"}) <= 1

C9_Witness ==
  /\ events = AgreementOrder
  /\ wpc = "finished"
  /\ Waiting # {}
  /\ real_time = 51

====
